---- MODULE Spec2Model ----
(***************************************************************************)
(* A model of userman-auth-rs: the RoleItems tree algebra (merge / add),   *)
(* the path resolver find_value, the role cache with its background        *)
(* synchronisation task, and the facade Auth::add_role_items.              *)
(***************************************************************************)
EXTENDS Integers, Sequences, FiniteSets, TLC

(***************************************************************************)
(* Data model (src/src/role.rs)                                            *)
(***************************************************************************)

\* Option::None, for every Option<T> of the source; Some(x) is x itself
\* where T is a record type, and Some(x) below where T is a string.
None == [none |-> TRUE]
Some(x) == [some |-> x]

\* enum DataValue { String, Float, Integer, Boolean }.  A Float literal is
\* kept as its decimal text: the algebra and the resolver only copy it.
DString(s) == [type |-> "String", val |-> s]
DFloat(s) == [type |-> "Float", val |-> s]
DInteger(i) == [type |-> "Integer", val |-> i]
DBoolean(b) == [type |-> "Boolean", val |-> b]

\* struct DataOptions { min_value, max_value }.
DataOptions(lo, hi) == [min_value |-> lo, max_value |-> hi]

\* struct Value { name, data, options }.
Value(n, d, o) == [name |-> n, data |-> d, options |-> o]

\* struct Item { name, values: RoleValues, items: RoleItems }.
Item(n, vs, its) == [name |-> n, values |-> vs, items |-> its]

\* fn crud_item(name): four Boolean(true) values and no sub-items.
crud_item(n) ==
    Item(n,
         << Value("create", DBoolean(TRUE), None),
            Value("read", DBoolean(TRUE), None),
            Value("update", DBoolean(TRUE), None),
            Value("delete", DBoolean(TRUE), None) >>,
         << >>)

\* RoleItems::local().
local == << crud_item("users"), crud_item("roles"), crud_item("apps") >>

\* Index of the first element of seq named n, 0 when there is none: the
\* position Iterator::find stops at.
FirstIdx(seq, n) ==
    IF \E i \in 1..Len(seq) : seq[i].name = n
    THEN CHOOSE i \in 1..Len(seq) :
            /\ seq[i].name = n
            /\ \A j \in 1..(i - 1) : seq[j].name # n
    ELSE 0

\* RoleValues::find / find_mut: the first Value named n, or None.
values_find(vs, n) == IF FirstIdx(vs, n) = 0 THEN None ELSE vs[FirstIdx(vs, n)]

\* RoleItems::find: the first Item named n, or None.
find(its, n) == IF FirstIdx(its, n) = 0 THEN None ELSE its[FirstIdx(its, n)]

(***************************************************************************)
(* merge (role.rs 200-222)                                                 *)
(***************************************************************************)

\* The inner loop of merge_items: every Value of n_values that a_values also
\* names is replaced wholesale by a_values' one.
MergeValues(a_values, n_values) ==
    [i \in 1..Len(n_values) |->
        IF values_find(a_values, n_values[i].name) # None
        THEN values_find(a_values, n_values[i].name)
        ELSE n_values[i]]

RECURSIVE merge_items(_, _)
\* merge_items that also appends the Items only self holds.
MergeItemsAppending(self, new) ==
    [i \in 1..Len(new) |->
        IF find(self, new[i].name) # None
        THEN Item(new[i].name,
                  MergeValues(find(self, new[i].name).values, new[i].values),
                  merge_items(find(self, new[i].name).items, new[i].items))
        ELSE new[i]]
    \o SelectSeq(self, LAMBDA it : FirstIdx(new, it.name) = 0)

\* RoleItems::merge_items(&self, new): the value of new after the call.
merge_items(self, new) ==
    [i \in 1..Len(new) |->
        LET n_item == new[i]
            a_item == find(self, n_item.name)
        IN  IF a_item # None
            THEN Item(n_item.name,
                      MergeValues(a_item.values, n_item.values),
                      merge_items(a_item.items, n_item.items))
            ELSE n_item]

\* RoleItems::merge(&self, new).
merge(self, new) == merge_items(self, new)

(***************************************************************************)
(* add (role.rs 224-274)                                                   *)
(***************************************************************************)

\* One iteration of `for value in item.values.inner()`: t_values after it.
AddValue(t_values, value) ==
    LET k == FirstIdx(t_values, value.name)
    IN  IF k # 0
        THEN IF value.data = DBoolean(FALSE)
             THEN t_values
             ELSE [t_values EXCEPT ![k].data = value.data]
        ELSE Append(t_values, value)

RECURSIVE AddValues(_, _)
\* The whole `for value in item.values.inner()` loop.
AddValues(t_values, values) ==
    IF values = << >> THEN t_values
    ELSE AddValues(AddValue(t_values, Head(values)), Tail(values))

\* The second loop of add_items (role.rs 250-263): the merge pass, written
\* out a second time in the source, recursing through merge_items.
AddOverwritePass(self, new) ==
    [i \in 1..Len(new) |->
        LET n_item == new[i]
            a_item == find(self, n_item.name)
        IN  IF a_item # None
            THEN Item(n_item.name,
                      MergeValues(a_item.values, n_item.values),
                      merge_items(a_item.items, n_item.items))
            ELSE n_item]

RECURSIVE add_items(_, _)
RECURSIVE AddUnionPass(_, _, _)
\* The first loop of add_items (role.rs 225-248) from Item k of self on.
AddUnionPass(self, k, new) ==
    IF k > Len(self) THEN new
    ELSE LET item == self[k]
             j == FirstIdx(new, item.name)
         IN  IF j # 0
             THEN AddUnionPass(self, k + 1,
                    [new EXCEPT ![j] =
                        Item(new[j].name,
                             AddValues(new[j].values, item.values),
                             add_items(item.items, new[j].items))])
             ELSE AddUnionPass(self, k + 1, Append(new, item))

\* add_items without its second loop (the documented behaviour of add).
AddItemsUnionOnly(self, new) == AddUnionPass(self, 1, new)

\* RoleItems::add_items(&self, new): the value of new after the call.
add_items(self, new) == AddOverwritePass(self, AddUnionPass(self, 1, new))

\* RoleItems::add(&self, new).
add(self, new) == add_items(self, new)

(***************************************************************************)
(* std::path::Path, as find_value uses it.  A path is its text cut into    *)
(* pieces: the separator "/", the dot ".", runs of other characters, and   *)
(* one piece standing for bytes that are not valid Unicode.                *)
(***************************************************************************)

Sep == "/"
Dot == "."
NonUnicode == "<ff>"

RECURSIVE Join(_)
\* The text of a run of pieces.
Join(ps) == IF ps = << >> THEN "" ELSE Head(ps) \o Join(Tail(ps))

\* OsStr::to_str: None when the text holds invalid Unicode.
to_str(os) ==
    IF \E i \in 1..Len(os) : os[i] = NonUnicode THEN None ELSE Some(Join(os))

RECURSIVE SegmentsFrom(_, _, _, _)
\* The scan behind Segments: piece i on, with the segments closed so far
\* and the segment being read.
SegmentsFrom(p, i, done, cur) ==
    IF i > Len(p) THEN Append(done, cur)
    ELSE IF p[i] = Sep THEN SegmentsFrom(p, i + 1, Append(done, cur), << >>)
    ELSE SegmentsFrom(p, i + 1, done, Append(cur, p[i]))

\* The path text split at every separator (empty segments kept).
Segments(p) == SegmentsFrom(p, 1, << >>, << >>)

RECURSIVE SegComponents(_, _, _)
\* Components from segment i on: empty segments and "." are dropped, except
\* a leading "." of a relative path (CurDir); ".." is ParentDir.
SegComponents(segs, i, has_root) ==
    IF i > Len(segs) THEN << >>
    ELSE LET seg == segs[i]
             rest == SegComponents(segs, i + 1, has_root)
         IN  IF seg = << >> THEN rest
             ELSE IF seg = << Dot >>
                  THEN IF i = 1 /\ ~has_root
                       THEN << [kind |-> "CurDir", os |-> seg] >> \o rest
                       ELSE rest
             ELSE IF seg = << Dot, Dot >>
                  THEN << [kind |-> "ParentDir", os |-> seg] >> \o rest
             ELSE << [kind |-> "Normal", os |-> seg] >> \o rest

\* Path::components(): RootDir first when the path starts with "/".
components(p) ==
    LET has_root == p # << >> /\ Head(p) = Sep
    IN  (IF has_root THEN << [kind |-> "RootDir", os |-> << Sep >>] >> ELSE << >>)
        \o SegComponents(Segments(p), 1, has_root)

\* Path::parent(): the path without its last component, given here by its
\* components (all find_value does with it is iterate them); None for the
\* empty path and for a path that ends in the root.
parent(p) ==
    LET comps == components(p)
    IN  IF comps = << >> THEN None
        ELSE IF comps[Len(comps)].kind = "RootDir" THEN None
        ELSE Some(SubSeq(comps, 1, Len(comps) - 1))

\* Path::file_name(): the last component when it is a normal one.
file_name(p) ==
    LET comps == components(p)
    IN  IF comps = << >> THEN None
        ELSE IF comps[Len(comps)].kind = "Normal" THEN Some(comps[Len(comps)].os)
        ELSE None

\* Position of the last "." of a file name, 0 when it has none.
LastDot(file) ==
    IF \E i \in 1..Len(file) : file[i] = Dot
    THEN CHOOSE i \in 1..Len(file) :
            /\ file[i] = Dot
            /\ \A j \in (i + 1)..Len(file) : file[j] # Dot
    ELSE 0

\* std's rsplit_file_at_dot: (before, after) the last dot; a name with no
\* dot is all `after`; a name whose only dot leads it is all `before`.
rsplit_file_at_dot(file) ==
    LET k == LastDot(file)
    IN  IF k = 0 THEN [before |-> None, after |-> Some(file)]
        ELSE IF k = 1 THEN [before |-> Some(file), after |-> None]
        ELSE [before |-> Some(SubSeq(file, 1, k - 1)),
              after |-> Some(SubSeq(file, k + 1, Len(file)))]

\* Path::file_stem(): before.or(after).
file_stem(p) ==
    IF file_name(p) = None THEN None
    ELSE LET s == rsplit_file_at_dot(file_name(p).some)
         IN  IF s.before # None THEN s.before ELSE s.after

\* Path::extension(): before.and(after).
extension(p) ==
    IF file_name(p) = None THEN None
    ELSE LET s == rsplit_file_at_dot(file_name(p).some)
         IN  IF s.before # None THEN s.after ELSE None

(***************************************************************************)
(* find_value (role.rs 133-198)                                            *)
(***************************************************************************)

\* Result<DataValue>, and the third outcome of the call: a panic.
Ok(d) == [kind |-> "Ok", value |-> d]
Err(e) == [kind |-> "Err", error |-> e, arg |-> ""]
InvalidAuthPath(n) == [kind |-> "Err", error |-> "InvalidAuthPath", arg |-> n]
Panic == [kind |-> "Panic"]

\* TakeCount taking all components but the last one.
TakeCountAllButLast(count, overflow_checks) ==
    IF count >= 1 THEN Some(count - 1)
    ELSE IF overflow_checks THEN None
    ELSE Some(count)

\* items.iter().count() - 2 on usize, as the argument of take().  With
\* overflow checks (the dev and test profiles) a count below 2 panics;
\* without them (release) it wraps to a number no iterator reaches, so that
\* take() yields every component: count of them.
TakeCount(count, overflow_checks) ==
    IF count >= 2 THEN Some(count - 2)
    ELSE IF overflow_checks THEN None
    ELSE Some(count)

RECURSIVE Descend(_, _, _, _)
\* The `for part in items.iter().take(..)` loop from part i on: the cursor
\* reached, or the error that ends the call.
Descend(cursor, parts, i, n) ==
    IF i > n THEN [cursor |-> cursor]
    ELSE LET name == to_str(parts[i].os)
         IN  IF name = None THEN Err("InvalidUnicodeString")
             ELSE IF name.some # "/"
                  THEN IF find(cursor, name.some) # None
                       THEN Descend(find(cursor, name.some).items, parts, i + 1, n)
                       ELSE InvalidAuthPath(name.some)
             ELSE Descend(cursor, parts, i + 1, n)

\* FindValueIn without the extension check.
FindValueInUnchecked(last_item, src) ==
    IF file_stem(src) = None THEN Err("MissingValueName")
    ELSE IF to_str(file_stem(src).some) = None THEN Err("InvalidUnicodeString")
    ELSE IF extension(src) = None THEN Err("MissingValueExtension")
    ELSE IF to_str(extension(src).some) = None THEN Err("InvalidUnicodeString")
    ELSE LET value == values_find(last_item.values, to_str(file_stem(src).some).some)
         IN  IF value = None THEN Err("MissingValue") ELSE Ok(value.data)

\* The tail of find_value, from `let value_name_part` on (role.rs 166-197).
FindValueIn(last_item, src) ==
    IF file_stem(src) = None THEN Err("MissingValueName")
    ELSE IF to_str(file_stem(src).some) = None THEN Err("InvalidUnicodeString")
    ELSE IF extension(src) = None THEN Err("MissingValueExtension")
    ELSE IF to_str(extension(src).some) = None THEN Err("InvalidUnicodeString")
    ELSE LET value_name == to_str(file_stem(src).some).some
             value_ext == to_str(extension(src).some).some
             value == values_find(last_item.values, value_name)
         IN  IF value = None THEN Err("MissingValue")
             ELSE IF \/ value_ext = "boolean" /\ value.data.type = "Boolean"
                     \/ value_ext = "float" /\ value.data.type = "Float"
                     \/ value_ext = "integer" /\ value.data.type = "Integer"
                     \/ value_ext = "string" /\ value.data.type = "String"
                  THEN Ok(value.data)
                  ELSE Err("InvalidDataValueType")

\* RoleItems::find_value(&self, src): what the call ends with.
find_value(self, src, overflow_checks) ==
    IF parent(src) = None THEN Err("MissingParentPath")
    ELSE LET items == parent(src).some
             n == TakeCount(Len(items), overflow_checks)
         IN  IF n = None THEN Panic
             ELSE LET walk == Descend(self, items, 1, n.some)
                  IN  IF "kind" \in DOMAIN walk THEN walk
                      ELSE IF items = << >> THEN Err("MissingLastItem")
                      ELSE LET last_name == to_str(items[Len(items)].os)
                           IN  IF last_name = None THEN Err("InvalidUnicodeString")
                               ELSE IF find(walk.cursor, last_name.some) = None
                                    THEN InvalidAuthPath(last_name.some)
                               ELSE FindValueIn(find(walk.cursor, last_name.some), src)

(***************************************************************************)
(* State                                                                   *)
(***************************************************************************)

VARIABLES
    alg_self,     \* the receiver of a merge / add call
    alg_new,      \* the `new: &mut RoleItems` argument, as it is now
    alg_old,      \* alg_new as it was when the last call started
    alg_op,       \* the last call made: "none", "merge" or "add"
    fv_self,      \* the receiver of find_value
    fv_src,       \* the path argument of the last find_value call
    fv_checks,    \* whether the build checks integer overflow
    fv_result,    \* what the last find_value call ended with
    store_app,    \* whether the apps collection holds the App named app_name
    store_roles,  \* the roles collection: role name -> items of the app's Role
    writes,       \* store writes made so far
    cache,        \* Auth.roles: the HashMap<String, Role> behind the RwLock
    init_pc,      \* Auth::init: "new", "refreshing", "Ok" or the error returned
    task_pc,      \* the spawned task: "unspawned", "watch", "next",
                  \*   "refreshing" or "exited"
    events,       \* change events the stream holds, not yet read by the task
    last_read,    \* what change_stream.next() last gave the task
    last_logged,  \* the last error the task logged with error!()
    rf_pc,        \* update_roles: "idle", "find_one", "find", "cursor" or "set"
    rf_docs,      \* update_roles: the documents its find() cursor yields
    rf_pos,       \* update_roles: how many of them try_next() has yielded
    rf_roles,     \* update_roles: its local `roles` HashMap
    rf_result,    \* what the last update_roles call returned
    rd_pc,        \* add_role_items: "idle", "running" or "done"
    rd_names,     \* add_role_items: its role_names argument
    rd_pos,       \* add_role_items: how many names the loop has taken
    rd_parent,    \* add_role_items: its `parent` accumulator
    rd_caches     \* the values the cache has held since the call started

algVars == << alg_self, alg_new, alg_old, alg_op >>
fvVars == << fv_self, fv_src, fv_checks, fv_result >>
storeVars == << store_app, store_roles, writes >>
taskVars == << init_pc, task_pc, events, last_read, last_logged >>
rfVars == << rf_pc, rf_docs, rf_pos, rf_roles, rf_result >>
rdVars == << rd_pc, rd_names, rd_pos, rd_parent, rd_caches >>
syncVars == << storeVars, cache, taskVars, rfVars, rdVars >>
vars == << algVars, fvVars, syncVars >>

\* The state of the two groups when their operations are not under study.
AlgIdle == alg_self = << >> /\ alg_new = << >> /\ alg_old = << >> /\ alg_op = "none"
FvIdle == fv_self = << >> /\ fv_src = << >> /\ fv_checks = TRUE /\ fv_result = None
SyncIdle ==
    /\ store_app = TRUE /\ store_roles = << >> /\ writes = 0
    /\ cache = << >>
    /\ init_pc = "new" /\ task_pc = "unspawned" /\ events = 0
    /\ last_read = "none" /\ last_logged = "none"
    /\ rf_pc = "idle" /\ rf_docs = << >> /\ rf_pos = 0 /\ rf_roles = << >>
    /\ rf_result = "none"
    /\ rd_pc = "idle" /\ rd_names = << >> /\ rd_pos = 0 /\ rd_parent = << >>
    /\ rd_caches = {}

(***************************************************************************)
(* Bounded inputs                                                          *)
(***************************************************************************)

\* Forests are drawn with at most MaxNodes Items and Values in all.
MaxNodes == 3
\* Paths are drawn with at most MaxDirs directory segments.
MaxDirs == 2
\* The store takes at most MaxWrites writes.
MaxWrites == 1
\* add_role_items is called with at most MaxRoleNames names.
MaxRoleNames == 2
\* Plain absolute paths are drawn with up to MaxDepth directory segments.
MaxDepth == 4

ItemNames == {"a", "b"}
ValueNames == {"v", "w"}
SomeOptions == DataOptions(DInteger(0), DInteger(9))
Payloads ==
    { [data |-> DBoolean(TRUE), options |-> None],
      [data |-> DBoolean(FALSE), options |-> None],
      [data |-> DInteger(2), options |-> SomeOptions] }

\* Elements of seq carry pairwise different names.
UniqueNames(seq) ==
    \A i, j \in 1..Len(seq) : seq[i].name = seq[j].name => i = j

RECURSIVE ValueLists(_)
\* The lists of exactly n Values with pairwise different names.
ValueLists(n) ==
    IF n = 0 THEN { << >> }
    ELSE { Append(vs, Value(nm, pl.data, pl.options)) :
             vs \in ValueLists(n - 1), nm \in ValueNames, pl \in Payloads }

RECURSIVE ForestsOf(_)
RECURSIVE ItemsOf(_)
\* The Items of exactly n nodes (the Item, its Values, its sub-forest).
ItemsOf(n) ==
    UNION { UNION { { Item(nm, vs, sub) :
                        nm \in ItemNames,
                        vs \in { l \in ValueLists(j) : UniqueNames(l) },
                        sub \in ForestsOf(n - 1 - j) } :
                    j \in 0..(n - 1) } }

\* The forests of exactly n nodes whose sibling Items have different names.
ForestsOf(n) ==
    IF n = 0 THEN { << >> }
    ELSE { f \in UNION { { << it >> \o rest : it \in ItemsOf(k), rest \in ForestsOf(n - k) } :
                         k \in 1..n } : UniqueNames(f) }

Forests == UNION { ForestsOf(n) : n \in 0..MaxNodes }

(***************************************************************************)
(* The tree algebra as operations                                          *)
(***************************************************************************)

AlgInit ==
    /\ alg_self \in Forests
    /\ alg_new \in Forests
    /\ alg_old = alg_new
    /\ alg_op = "none"
    /\ FvIdle
    /\ SyncIdle

\* self.merge(&mut new)
Merge ==
    /\ alg_op = "none"
    /\ alg_op' = "merge"
    /\ alg_old' = alg_new
    /\ alg_new' = merge(alg_self, alg_new)
    /\ UNCHANGED << alg_self, fvVars, syncVars >>

\* self.add(&mut new)
Add ==
    /\ alg_op = "none"
    /\ alg_op' = "add"
    /\ alg_old' = alg_new
    /\ alg_new' = add(alg_self, alg_new)
    /\ UNCHANGED << alg_self, fvVars, syncVars >>

AlgNext == Merge \/ Add

AlgebraSpec == AlgInit /\ [][AlgNext]_vars

(***************************************************************************)
(* find_value as an operation                                              *)
(***************************************************************************)

\* Trees find_value is called on: the local default, a tree holding every
\* DataValue variant with an Item b both at the root and inside a, a tree
\* whose only b is inside a, and a tree with b and no a.
TypedTree ==
    << Item("a",
            << Value("v", DBoolean(FALSE), None),
               Value("w", DInteger(2), SomeOptions) >>,
            << Item("b", << Value("v", DString("x"), None) >>, << >>) >>),
       Item("b",
            << Value("v", DFloat("1.5"), None),
               Value("w", DString("s"), None) >>,
            << >>) >>
InnerOnlyTree ==
    << Item("a", << >>, << Item("b", << Value("v", DBoolean(TRUE), None) >>, << >>) >>) >>
RootOnlyTree == << Item("b", << Value("v", DBoolean(TRUE), None) >>, << >>) >>
\* Three levels, with an Item c at each of them that holds another v.
DeepTree ==
    << Item("a",
            << Value("v", DBoolean(TRUE), None) >>,
            << Item("b",
                    << Value("v", DInteger(2), SomeOptions) >>,
                    << Item("c", << Value("v", DBoolean(FALSE), None) >>, << >>) >>),
               Item("c", << Value("v", DFloat("1.5"), None) >>, << >>) >>),
       Item("c", << Value("v", DString("root"), None) >>, << >>) >>
ResolveTrees == { local, TypedTree, InnerOnlyTree, RootOnlyTree, DeepTree }

DirNames == {"a", "b", "users", "missing"}
FileNames == {"v", "w", "create"}
Exts == {"boolean", "float", "integer", "string", "other"}

\* What stands between two separators of a drawn path.
DirSegs ==
    { << n >> : n \in DirNames }
    \cup { << >>, << Dot >>, << Dot, Dot >>, << NonUnicode >> }

\* What a drawn path ends with.
FileSegs ==
    { << n, Dot, e >> : n \in FileNames, e \in Exts }
    \cup { << n >> : n \in FileNames }
    \cup { << n, Dot >> : n \in FileNames }
    \cup { << Dot, e >> : e \in Exts }
    \cup { << >>, << Dot >>, << Dot, Dot >>,
           << NonUnicode, Dot, "boolean" >>, << "v", Dot, NonUnicode >>,
           << "v", Dot, "w", Dot, "string" >> }

RECURSIVE DirParts(_)
\* The texts of exactly k directory segments, each closed by a separator.
DirParts(k) ==
    IF k = 0 THEN { << >> }
    ELSE { d \o seg \o << Sep >> : d \in DirParts(k - 1), seg \in DirSegs }

\* Absolute and relative paths of at most MaxDirs directory segments.
Paths ==
    { lead \o d \o f :
        lead \in { << >>, << Sep >> },
        d \in UNION { DirParts(k) : k \in 0..MaxDirs },
        f \in FileSegs }

DeepNames == {"a", "b", "c", "x"}
DeepFiles ==
    { << "v", Dot, e >> : e \in {"boolean", "float", "integer", "string"} }
    \cup { << "w", Dot, "boolean" >> }

RECURSIVE DeepDirs(_)
\* The texts "/s1/.../sk/" of exactly k named directory segments.
DeepDirs(k) ==
    IF k = 0 THEN { << Sep >> }
    ELSE { d \o << n, Sep >> : d \in DeepDirs(k - 1), n \in DeepNames }

\* Plain absolute paths "/s1/.../sK/name.ext" of 3 to MaxDepth directory
\* segments (Paths holds the shorter ones).
DeepPaths ==
    { d \o f : d \in UNION { DeepDirs(k) : k \in 3..MaxDepth }, f \in DeepFiles }

FvInit ==
    /\ fv_self \in ResolveTrees
    /\ fv_checks \in BOOLEAN
    /\ fv_src = << >>
    /\ fv_result = None
    /\ AlgIdle
    /\ SyncIdle

\* self.find_value(src)
FindValue ==
    /\ fv_result = None
    /\ \E p \in Paths \cup DeepPaths :
        /\ fv_src' = p
        /\ fv_result' = find_value(fv_self, p, fv_checks)
        /\ UNCHANGED << fv_self, fv_checks, algVars, syncVars >>

FvNext == FindValue

ResolveSpec == FvInit /\ [][FvNext]_vars

(***************************************************************************)
(* The role cache, its synchronisation task and the facade (src/src/lib.rs)*)
(***************************************************************************)

\* The App the Auth is built for, and another App of the same store.
AppId == "app"
OtherAppId == "other"

\* struct Role { app, name, items } (its id and timestamps play no part).
Role(n, a, its) == [name |-> n, app |-> a, items |-> its]

\* The names the app's roles go by, and the items operators give them.
RoleNames == {"r1", "r2"}
ContentOne == << Item("a", << Value("v", DInteger(1), None) >>, << >>) >>
ContentTwo == << Item("a", << Value("v", DInteger(2), SomeOptions) >>, << >>) >>
ContentThree == << Item("b", << Value("w", DBoolean(TRUE), None) >>, << >>) >>
RoleContents == { ContentOne, ContentTwo, ContentThree }

\* The roles collection as the program may find it when it starts.
InitialStores ==
    { << >>,
      [n \in {"r1"} |-> ContentOne],
      [n \in {"r1", "r2"} |-> IF n = "r1" THEN ContentOne ELSE ContentThree] }

\* A Role of another App that the roles collection also holds.
OtherRole ==
    Role("r1", OtherAppId, << Item("b", << Value("v", DBoolean(FALSE), None) >>, << >>) >>)

\* HashMap::insert.
Insert(map, key, value) ==
    [k \in DOMAIN map \cup {key} |-> IF k = key THEN value ELSE map[k]]

\* The names in seq order: the order the collection hands its documents out.
NameOrder == << "r1", "r2" >>

\* The documents of the roles collection.
StoreDocs ==
    << OtherRole >>
    \o [i \in 1..Len(SelectSeq(NameOrder, LAMBDA n : n \in DOMAIN store_roles)) |->
          LET n == SelectSeq(NameOrder, LAMBDA m : m \in DOMAIN store_roles)[i]
          IN  Role(n, AppId, store_roles[n])]

\* collection::<Role>(ROLES).find(doc! { "app": t.id() }): the documents a
\* cursor opened now yields.
FindRoles(app) == SelectSeq(StoreDocs, LAMBDA d : d.app = app)

SyncInit ==
    /\ store_app = TRUE
    /\ store_roles \in InitialStores
    /\ writes = 0
    /\ cache = << >>
    /\ init_pc = "new" /\ task_pc = "unspawned" /\ events = 0
    /\ last_read = "none" /\ last_logged = "none"
    /\ rf_pc = "idle" /\ rf_docs = << >> /\ rf_pos = 0 /\ rf_roles = << >>
    /\ rf_result = "none"
    /\ rd_pc = "idle" /\ rd_names = << >> /\ rd_pos = 0 /\ rd_parent = << >>
    /\ rd_caches = {}
    /\ AlgIdle
    /\ FvIdle

\* The change stream holds an event for every write to the roles collection
\* made while the task's subscription is open.
Subscribed == task_pc \in {"next", "refreshing"}

\* An operator's tooling inserts or replaces a Role of the app.
StoreWriteRole ==
    /\ writes < MaxWrites
    /\ \E n \in RoleNames, c \in RoleContents :
        /\ ~(n \in DOMAIN store_roles /\ store_roles[n] = c)
        /\ store_roles' = Insert(store_roles, n, c)
    /\ writes' = writes + 1
    /\ events' = IF Subscribed THEN events + 1 ELSE events
    /\ UNCHANGED << store_app, cache, init_pc, task_pc, last_read, last_logged,
                    rfVars, rdVars, algVars, fvVars >>

\* An operator's tooling deletes a Role of the app.
StoreDeleteRole ==
    /\ writes < MaxWrites
    /\ \E n \in DOMAIN store_roles :
        store_roles' = [k \in DOMAIN store_roles \ {n} |-> store_roles[k]]
    /\ writes' = writes + 1
    /\ events' = IF Subscribed THEN events + 1 ELSE events
    /\ UNCHANGED << store_app, cache, init_pc, task_pc, last_read, last_logged,
                    rfVars, rdVars, algVars, fvVars >>

\* An operator's tooling creates or deletes the App document: a write to the
\* apps collection, which the task does not watch.
StoreWriteApp ==
    /\ writes < MaxWrites
    /\ store_app' = ~store_app
    /\ writes' = writes + 1
    /\ UNCHANGED << store_roles, cache, taskVars, rfVars, rdVars, algVars, fvVars >>

\* What the caller of update_roles does with an error: init returns it
\* (lib.rs 197), the task logs it and goes back to the stream (lib.rs 216).
UpdateRolesErr(err) ==
    /\ rf_pc' = "idle"
    /\ rf_result' = err
    /\ IF init_pc = "refreshing"
       THEN init_pc' = err /\ UNCHANGED << task_pc, last_logged >>
       ELSE task_pc' = "next" /\ last_logged' = err /\ UNCHANGED init_pc
    /\ UNCHANGED << events, last_read, rf_docs, rf_pos, rf_roles >>

\* Auth::init up to its first await: the call of update_roles.
InitCall ==
    /\ init_pc = "new"
    /\ init_pc' = "refreshing"
    /\ rf_pc' = "find_one"
    /\ UNCHANGED << storeVars, cache, task_pc, events, last_read, last_logged,
                    rf_docs, rf_pos, rf_roles, rf_result, rdVars, algVars, fvVars >>

\* update_roles: find_one returns the App.
UpdateRolesFindOne ==
    /\ rf_pc = "find_one"
    /\ store_app
    /\ rf_pc' = "find"
    /\ UNCHANGED << storeVars, cache, taskVars, rf_docs, rf_pos, rf_roles,
                    rf_result, rdVars, algVars, fvVars >>

\* update_roles: find_one returns no App.
UpdateRolesMissingApp ==
    /\ rf_pc = "find_one"
    /\ ~store_app
    /\ UpdateRolesErr("MissingAppInDatabase")
    /\ UNCHANGED << storeVars, cache, rdVars, algVars, fvVars >>

\* update_roles: find_one fails.
UpdateRolesFindOneErr ==
    /\ rf_pc = "find_one"
    /\ UpdateRolesErr("MongoFindOne")
    /\ UNCHANGED << storeVars, cache, rdVars, algVars, fvVars >>

\* update_roles: find opens the cursor; `roles` starts empty.
UpdateRolesFind ==
    /\ rf_pc = "find"
    /\ rf_pc' = "cursor"
    /\ rf_docs' = FindRoles(AppId)
    /\ rf_pos' = 0
    /\ rf_roles' = << >>
    /\ UNCHANGED << storeVars, cache, taskVars, rf_result, rdVars, algVars, fvVars >>

\* update_roles: find fails.
UpdateRolesFindErr ==
    /\ rf_pc = "find"
    /\ UpdateRolesErr("MongoFind")
    /\ UNCHANGED << storeVars, cache, rdVars, algVars, fvVars >>

\* update_roles: try_next yields a Role, which goes into `roles`.
UpdateRolesTryNext ==
    /\ rf_pc = "cursor"
    /\ rf_pos < Len(rf_docs)
    /\ rf_pos' = rf_pos + 1
    /\ rf_roles' = Insert(rf_roles, rf_docs[rf_pos + 1].name, rf_docs[rf_pos + 1])
    /\ UNCHANGED << storeVars, cache, taskVars, rf_pc, rf_docs, rf_result,
                    rdVars, algVars, fvVars >>

\* A cursor-read error that also installs what was read so far.
UpdateRolesTryNextErrPartialSet ==
    /\ rf_pc = "cursor"
    /\ UpdateRolesErr("MongoReadCursor")
    /\ cache' = rf_roles
    /\ rd_caches' = IF rd_pc = "running" THEN rd_caches \cup {rf_roles} ELSE rd_caches
    /\ UNCHANGED << storeVars, rd_pc, rd_names, rd_pos, rd_parent, algVars, fvVars >>

\* update_roles: try_next fails.
UpdateRolesTryNextErr ==
    /\ rf_pc = "cursor"
    /\ UpdateRolesErr("MongoReadCursor")
    /\ UNCHANGED << storeVars, cache, rdVars, algVars, fvVars >>

\* update_roles: try_next yields None, the loop ends and the call goes on to
\* Roles::set, where it waits for the write lock (lib.rs 58).
UpdateRolesTryNextNone ==
    /\ rf_pc = "cursor"
    /\ rf_pos = Len(rf_docs)
    /\ rf_pc' = "set"
    /\ UNCHANGED << storeVars, cache, taskVars, rf_docs, rf_pos, rf_roles, rf_result,
                    rdVars, algVars, fvVars >>

\* update_roles: the write lock is granted, Roles::set swaps the mapping in
\* and the call returns Ok.  init then spawns the task (lib.rs 199-222);
\* the task goes back to the stream.
UpdateRolesSet ==
    /\ rf_pc = "set"
    /\ cache' = rf_roles
    /\ rd_caches' = IF rd_pc = "running" THEN rd_caches \cup {rf_roles} ELSE rd_caches
    /\ rf_pc' = "idle"
    /\ rf_result' = "Ok"
    /\ IF init_pc = "refreshing"
       THEN init_pc' = "Ok" /\ task_pc' = "watch"
       ELSE task_pc' = "next" /\ UNCHANGED init_pc
    /\ UNCHANGED << storeVars, events, last_read, last_logged, rf_docs, rf_pos,
                    rf_roles, rd_pc, rd_names, rd_pos, rd_parent, algVars, fvVars >>

\* The task: watch() opens the change stream.
TaskWatch ==
    /\ task_pc = "watch"
    /\ task_pc' = "next"
    /\ events' = 0
    /\ UNCHANGED << storeVars, cache, init_pc, last_read, last_logged, rfVars,
                    rdVars, algVars, fvVars >>

\* The task: watch() fails; the error is logged and the task returns.
TaskWatchErr ==
    /\ task_pc = "watch"
    /\ task_pc' = "exited"
    /\ last_logged' = "MongoWatchChangeStream"
    /\ UNCHANGED << storeVars, cache, init_pc, events, last_read, rfVars,
                    rdVars, algVars, fvVars >>

\* The task: next() yields Some(Ok(event)); the loop body calls update_roles.
TaskNextEvent ==
    /\ task_pc = "next"
    /\ events > 0
    /\ events' = events - 1
    /\ last_read' = "event"
    /\ task_pc' = "refreshing"
    /\ rf_pc' = "find_one"
    /\ UNCHANGED << storeVars, cache, init_pc, last_logged, rf_docs, rf_pos,
                    rf_roles, rf_result, rdVars, algVars, fvVars >>

\* The task: next() yields Some(Err(_)); `while let Some(Ok(_))` does not
\* match, the loop and with it the task end.
TaskNextErr ==
    /\ task_pc = "next"
    /\ last_read' = "error"
    /\ task_pc' = "exited"
    /\ UNCHANGED << storeVars, cache, init_pc, events, last_logged, rfVars,
                    rdVars, algVars, fvVars >>

\* The task: next() yields None (the stream is closed); the task ends.
TaskNextClosed ==
    /\ task_pc = "next"
    /\ last_read' = "closed"
    /\ task_pc' = "exited"
    /\ UNCHANGED << storeVars, cache, init_pc, events, last_logged, rfVars,
                    rdVars, algVars, fvVars >>

\* Roles::get(name): the Role cached under name, cloned under the read lock.
get(name) == IF name \in DOMAIN cache THEN cache[name] ELSE None

RECURSIVE SeqsUpTo(_, _)
\* The sequences over S of length at most n.
SeqsUpTo(S, n) ==
    IF n = 0 THEN { << >> }
    ELSE SeqsUpTo(S, n - 1)
         \cup { Append(q, x) : q \in { r \in SeqsUpTo(S, n - 1) : Len(r) = n - 1 }, x \in S }

\* Names a caller may pass; the cache misses each of them at some time.
CallerNames == RoleNames

\* Auth::add_role_items(role_names): the call starts with an empty parent.
AddRoleItemsCall ==
    /\ rd_pc = "idle"
    /\ \E names \in SeqsUpTo(CallerNames, MaxRoleNames) :
        rd_names' = names
    /\ rd_pc' = "running"
    /\ rd_pos' = 0
    /\ rd_parent' = << >>
    /\ rd_caches' = {cache}
    /\ UNCHANGED << storeVars, cache, taskVars, rfVars, algVars, fvVars >>

\* One turn of the loop with the names taken in reverse order.
AddRoleItemsStepReversed ==
    /\ rd_pc = "running"
    /\ rd_pos < Len(rd_names)
    /\ rd_pos' = rd_pos + 1
    /\ LET role == get(rd_names[Len(rd_names) - rd_pos])
       IN  rd_parent' = IF role # None THEN add(role.items, rd_parent) ELSE rd_parent
    /\ UNCHANGED << storeVars, cache, taskVars, rfVars, rd_pc, rd_names,
                    rd_caches, algVars, fvVars >>

\* add_role_items: one turn of `for name in role_names`: the lookup, and the
\* add of the Role found into parent.
AddRoleItemsStep ==
    /\ rd_pc = "running"
    /\ rd_pos < Len(rd_names)
    /\ rd_pos' = rd_pos + 1
    /\ LET role == get(rd_names[rd_pos + 1])
       IN  rd_parent' = IF role # None THEN add(role.items, rd_parent) ELSE rd_parent
    /\ UNCHANGED << storeVars, cache, taskVars, rfVars, rd_pc, rd_names,
                    rd_caches, algVars, fvVars >>

\* add_role_items: the loop is over and parent is returned.
AddRoleItemsReturn ==
    /\ rd_pc = "running"
    /\ rd_pos = Len(rd_names)
    /\ rd_pc' = "done"
    /\ UNCHANGED << storeVars, cache, taskVars, rfVars, rd_names, rd_pos,
                    rd_parent, rd_caches, algVars, fvVars >>

Next ==
    \/ StoreWriteRole
    \/ StoreDeleteRole
    \/ StoreWriteApp
    \/ InitCall
    \/ UpdateRolesFindOne
    \/ UpdateRolesMissingApp
    \/ UpdateRolesFindOneErr
    \/ UpdateRolesFind
    \/ UpdateRolesFindErr
    \/ UpdateRolesTryNext
    \/ UpdateRolesTryNextErr
    \/ UpdateRolesTryNextNone
    \/ UpdateRolesSet
    \/ TaskWatch
    \/ TaskWatchErr
    \/ TaskNextEvent
    \/ TaskNextErr
    \/ TaskNextClosed
    \/ AddRoleItemsCall
    \/ AddRoleItemsStep
    \/ AddRoleItemsReturn

Spec == SyncInit /\ [][Next]_vars

(***************************************************************************)
(* Helpers of the properties                                               *)
(***************************************************************************)

HasName(seq, n) == \E i \in 1..Len(seq) : seq[i].name = n
Named(seq, n) == seq[CHOOSE i \in 1..Len(seq) : seq[i].name = n]
NamesOf(seq) == [i \in 1..Len(seq) |-> seq[i].name]

RECURSIVE ForestAt(_, _)
\* The sub-forest a chain of Item names leads to (the forest itself for the
\* empty chain), or None when some name of the chain is missing.
ForestAt(f, chain) ==
    IF chain = << >> THEN [forest |-> f]
    ELSE IF ~HasName(f, Head(chain)) THEN None
    ELSE ForestAt(Named(f, Head(chain)).items, Tail(chain))

RECURSIVE ChainsUpTo(_)
ChainsUpTo(n) ==
    IF n = 0 THEN { << >> }
    ELSE ChainsUpTo(n - 1)
         \cup { Append(c, nm) : c \in ChainsUpTo(n - 1), nm \in ItemNames }

\* Every chain of Item names a drawn forest can hold.
Chains == ChainsUpTo(MaxNodes)

\* The names of a that b does not hold, in a's order.
OnlyIn(a, b) == SelectSeq(NamesOf(a), LAMBDA n : ~HasName(b, n))

RECURSIVE SameShape(_, _)
\* Two forests with the same Item names in the same order, the same Value
\* names in the same order inside each Item, and so on downwards.
SameShape(f, g) ==
    /\ Len(f) = Len(g)
    /\ \A i \in 1..Len(f) :
        /\ f[i].name = g[i].name
        /\ NamesOf(f[i].values) = NamesOf(g[i].values)
        /\ SameShape(f[i].items, g[i].items)

\* The extension the resolver maps to a DataValue variant.
ExtOf(type) ==
    CASE type = "Boolean" -> "boolean"
      [] type = "Float" -> "float"
      [] type = "Integer" -> "integer"
      [] type = "String" -> "string"

\* The name -> Role mapping of the app's roles as the store holds them now.
StoreMap == [n \in DOMAIN store_roles |-> Role(n, AppId, store_roles[n])]

\* The name -> Role mapping a list of documents gives: for each name, the
\* last document of that name.
MapOfDocs(docs) ==
    [n \in { docs[i].name : i \in 1..Len(docs) } |->
        docs[CHOOSE i \in 1..Len(docs) :
                /\ docs[i].name = n
                /\ \A j \in (i + 1)..Len(docs) : docs[j].name # n]]

RECURSIVE FoldAdd(_, _)
\* Starting from acc, each forest of the list added in turn.
FoldAdd(forests, acc) ==
    IF forests = << >> THEN acc
    ELSE FoldAdd(Tail(forests), add(Head(forests), acc))

\* The composition of the named roles out of the one mapping m: the items of
\* the names m holds, in list order, added to the empty forest.
Compose(names, m) ==
    LET present == SelectSeq(names, LAMBDA n : n \in DOMAIN m)
    IN  FoldAdd([i \in 1..Len(present) |-> m[present[i]].items], << >>)

\* Whether forest f holds a Value named vn in the Item the chain c leads to.
HoldsValue(f, c, vn) ==
    /\ c # << >>
    /\ ForestAt(f, SubSeq(c, 1, Len(c) - 1)) # None
    /\ HasName(ForestAt(f, SubSeq(c, 1, Len(c) - 1)).forest, c[Len(c)])
    /\ HasName(Named(ForestAt(f, SubSeq(c, 1, Len(c) - 1)).forest, c[Len(c)]).values, vn)

\* That Value.
ValueAt(f, c, vn) ==
    Named(Named(ForestAt(f, SubSeq(c, 1, Len(c) - 1)).forest, c[Len(c)]).values, vn)

RECURSIVE Places(_)
\* Every place of forest f that holds a Value: the chain of Item names
\* leading to the Item, paired with the Value's name.
Places(f) ==
    UNION { { << << f[i].name >>, f[i].values[k].name >> :
                k \in 1..Len(f[i].values) }
            \cup { << << f[i].name >> \o p[1], p[2] >> : p \in Places(f[i].items) } :
            i \in 1..Len(f) }

\* The mapping a call of add_role_items saw, when it saw only one.
TheCache == CHOOSE m \in rd_caches : TRUE

(***************************************************************************)
(* Properties                                                              *)
(***************************************************************************)

\* C1: what a call of add_role_items returns is the composition of the
\* named roles out of one single mapping the cache held during the call,
\* never a mix of the mappings before and after a swap.
C1_CallSeesOneMapping ==
    rd_pc = "done" => \E m \in rd_caches : rd_parent = Compose(rd_names, m)

\* C2: once subscribed, the task does not end on a failure: neither a
\* refresh that returns an error nor a failed read of the change stream
\* ends it (only the end of the stream does).
C2_TaskSurvivesFailures ==
    [][(task_pc \in {"next", "refreshing"})
        => (task_pc' # "exited" \/ last_read' = "closed")]_vars

\* C3: after init returned Ok, with no failure so far, once the task waits
\* on a stream that holds no event (so that nothing more happens unless the
\* store changes again) the cache is the mapping of the store's roles:
\* every write made after the initial refresh read the store has reached
\* the readers.
C3_QuiescentCacheIsStore ==
    (/\ init_pc = "Ok"
     /\ last_logged = "none"
     /\ task_pc = "next"
     /\ events = 0)
    => cache = StoreMap

\* C4: a refresh that returns an error leaves the cache as it was; the
\* cache changes only in the step in which a refresh returns Ok, and then
\* to the mapping built from all the documents the cursor yielded.
C4_FailedRefreshKeepsCache ==
    [][/\ (rf_pc # "idle" /\ rf_pc' = "idle" /\ rf_result' # "Ok") => (cache' = cache)
       /\ (cache' # cache) =>
            (/\ rf_pc = "set" /\ rf_pc' = "idle" /\ rf_result' = "Ok"
             /\ cache' = MapOfDocs(rf_docs))]_vars

\* C4 witness: a refresh failed on a cursor read after it had read a Role,
\* and the cache is not what it had built.
C4_Witness ==
    /\ rf_pc = "idle"
    /\ rf_result = "MongoReadCursor"
    /\ 0 < rf_pos /\ rf_pos < Len(rf_docs)
    /\ cache # rf_roles

\* C5: find_value ends every call with one DataValue or one AuthError; it
\* never aborts, also for paths with fewer than two directory components.
C5_FindValueNeverAborts ==
    fv_result # None => fv_result.kind \in {"Ok", "Err"}

\* C6: on a forest with uniquely named top-level Items and Values,
\* find_value("/I/V.ext") is InvalidAuthPath(I) when no top-level Item I
\* exists, MissingValue when I has no Value V, a copy of V's data when ext
\* is the extension of the data's variant, and InvalidDataValueType for any
\* other ext; with the three results the spec lists for RoleItems::local().
C6_TopLevelLookup ==
    /\ \A I \in DirNames, V \in FileNames, e \in Exts \cup {""} :
        (/\ fv_result # None
         /\ fv_src = << Sep, I, Sep, V, Dot >> \o (IF e = "" THEN << >> ELSE << e >>))
        => IF ~HasName(fv_self, I) THEN fv_result = InvalidAuthPath(I)
           ELSE IF ~HasName(Named(fv_self, I).values, V)
                THEN fv_result = Err("MissingValue")
           ELSE LET d == Named(Named(fv_self, I).values, V).data
                IN  IF e = ExtOf(d.type) THEN fv_result = Ok(d)
                    ELSE fv_result = Err("InvalidDataValueType")
    /\ (fv_result # None /\ fv_self = local) =>
        /\ fv_src = << Sep, "users", Sep, "create", Dot, "boolean" >>
            => fv_result = Ok(DBoolean(TRUE))
        /\ fv_src = << Sep, "users", Sep, "create", Dot, "integer" >>
            => fv_result = Err("InvalidDataValueType")
        /\ fv_src = << Sep, "missing", Sep, "create", Dot, "boolean" >>
            => fv_result = InvalidAuthPath("missing")

\* C6 witness: the resolver has returned a typed value of a top-level Item.
C6_Witness ==
    /\ fv_self = TypedTree
    /\ fv_src = << Sep, "b", Sep, "v", Dot, "float" >>
    /\ fv_result = Ok(DFloat("1.5"))

RECURSIVE AddNetEffect(_, _, _)
\* What add leaves in n, given self's forest s and new's former forest o at
\* one place of the tree: the Items of o in their order, then the Items only
\* s holds in s's order; an Item only s holds with s's content; an Item of
\* both with o's Values in their order, then the Values only s holds, each
\* Value of s with s's content; and the same one level down.
AddNetEffect(s, o, n) ==
    /\ NamesOf(n) = NamesOf(o) \o OnlyIn(s, o)
    /\ \A i \in 1..Len(s) :
        IF HasName(o, s[i].name)
        THEN /\ NamesOf(Named(n, s[i].name).values)
                  = NamesOf(Named(o, s[i].name).values)
                    \o OnlyIn(s[i].values, Named(o, s[i].name).values)
             /\ \A k \in 1..Len(s[i].values) :
                  Named(Named(n, s[i].name).values, s[i].values[k].name)
                    = s[i].values[k]
             /\ AddNetEffect(s[i].items, Named(o, s[i].name).items,
                             Named(n, s[i].name).items)
        ELSE Named(n, s[i].name) = s[i]

\* C7: after add, at every level where self and the old new both reach a
\* forest: each Item of both holds every Value of self's Item with self's
\* content (overwritten when new had it, appended when not), a Boolean(false)
\* of self included; each Item only self holds is appended with self's
\* content; and nothing new held is dropped or reordered.
C7_AddNetEffect ==
    alg_op = "add" => AddNetEffect(alg_self, alg_old, alg_new)

\* C7 witness: self = {a: {v: false}} was added to new = {a: {v: true}}.
C7_Witness ==
    /\ alg_op = "add"
    /\ alg_self = << Item("a", << Value("v", DBoolean(FALSE), None) >>, << >>) >>
    /\ alg_old = << Item("a", << Value("v", DBoolean(TRUE), None) >>, << >>) >>
    /\ alg_new = << Item("a", << Value("v", DBoolean(FALSE), None) >>, << >>) >>

\* C8: add as its doc comment states it: a Boolean(false) of self leaves the
\* same-named Value of new as it was, a Boolean(true) makes it true, any
\* other data replaces it, and a Value new lacks is added.
C8_AddAsDocumented ==
    alg_op = "add" =>
        \A c \in Chains :
            LET s == ForestAt(alg_self, c)
                o == ForestAt(alg_old, c)
                n == ForestAt(alg_new, c)
            IN  (s # None /\ o # None /\ n # None) =>
                \A i \in 1..Len(s.forest) :
                    LET a == s.forest[i]
                    IN  HasName(o.forest, a.name) =>
                        \A k \in 1..Len(a.values) :
                            LET v == a.values[k]
                                b == Named(o.forest, a.name)
                                r == Named(n.forest, a.name)
                            IN  /\ HasName(r.values, v.name)
                                /\ IF ~HasName(b.values, v.name)
                                   THEN Named(r.values, v.name) = v
                                   ELSE IF v.data = DBoolean(FALSE)
                                        THEN Named(r.values, v.name) = Named(b.values, v.name)
                                        ELSE Named(r.values, v.name).data = v.data

\* C9: a call of add_role_items during which the cache held one mapping
\* returns the items of the cached roles it names, added in list order to
\* the empty forest, names the cache lacks being skipped; a Value several of
\* them hold at the same place comes out as the last of them has it, so that
\* two roles that differ on a Value give another result when swapped.
C9_FacadeComposition ==
    (rd_pc = "done" /\ Cardinality(rd_caches) = 1) =>
        LET m == TheCache
            named == { i \in 1..Len(rd_names) : rd_names[i] \in DOMAIN m }
            items(i) == m[rd_names[i]].items
            held(p) == { i \in named : HoldsValue(items(i), p[1], p[2]) }
            last(S) == CHOOSE i \in S : \A j \in S : j <= i
        IN  /\ rd_parent = Compose(rd_names, m)
            /\ \A i \in named : \A p \in Places(items(i)) :
                    /\ HoldsValue(rd_parent, p[1], p[2])
                    /\ ValueAt(rd_parent, p[1], p[2])
                         = ValueAt(items(last(held(p))), p[1], p[2])
            /\ (/\ Len(rd_names) = 2
                /\ named = {1, 2}
                /\ \E p \in Places(items(1)) :
                    /\ held(p) = {1, 2}
                    /\ ValueAt(items(1), p[1], p[2]) # ValueAt(items(2), p[1], p[2]))
               => rd_parent # Compose(<< rd_names[2], rd_names[1] >>, m)

\* C9 witness: the call composed two cached roles that set a.v to different
\* literals, and returned the second one's.
C9_Witness ==
    /\ rd_pc = "done"
    /\ rd_names = << "r1", "r2" >>
    /\ rd_caches = { [n \in {"r1", "r2"} |->
                        Role(n, AppId, IF n = "r1" THEN ContentOne ELSE ContentTwo)] }
    /\ rd_parent = ContentTwo

\* C10: merge leaves the shape of new as it was at every level (no Item or
\* Value added, removed, renamed or moved), and leaves self as it was.
C10_MergeKeepsShape ==
    [][(alg_op = "none" /\ alg_op' = "merge") =>
            /\ SameShape(alg_new, alg_new')
            /\ alg_self' = alg_self]_vars

\* C10 witness: a merge that overwrote a Value of new while self held an
\* Item that new lacks.
C10_Witness ==
    /\ alg_op = "merge"
    /\ alg_new # alg_old
    /\ \E i \in 1..Len(alg_self) : ~HasName(alg_old, alg_self[i].name)

\* A path "/s1/.../sK/name.ext" of K >= 2 directory segments, each of them,
\* the name and the extension being plain text.
PlainToken(t) == t \notin {Sep, Dot, NonUnicode}
DirCount(p) == (Len(p) - 4) \div 2
IsPlainPath(p) ==
    /\ Len(p) >= 8
    /\ Len(p) % 2 = 0
    /\ \A i \in 1..(DirCount(p) + 1) : p[2 * i - 1] = Sep /\ PlainToken(p[2 * i])
    /\ p[Len(p) - 1] = Dot
    /\ PlainToken(p[Len(p)])

\* C11: for a path /s1/.../sK/name.ext with K >= 2, find_value goes down
\* through s1..s(K-2) only, a missing one of them ending the call with
\* InvalidAuthPath naming it, then looks sK up in the forest reached
\* (InvalidAuthPath(sK) when it is not there) and resolves name.ext in that
\* Item; s(K-1) has no part in the result.  So "/a/b/v.boolean" finds b
\* among the root Items without an Item a, and fails with InvalidAuthPath("b")
\* when b is only inside a.
C11_SkipsNextToLast ==
    /\ (fv_result # None /\ IsPlainPath(fv_src)) =>
        LET K == DirCount(fv_src)
            chain == [i \in 1..(K - 2) |-> fv_src[2 * i]]
            misses == { i \in 1..(K - 2) : ForestAt(fv_self, SubSeq(chain, 1, i)) = None }
            sK == fv_src[2 * K]
            name == fv_src[2 * K + 2]
            ext == fv_src[2 * K + 4]
        IN  IF misses # {}
            THEN fv_result
                   = InvalidAuthPath(chain[CHOOSE i \in misses : \A j \in misses : i <= j])
            ELSE IF ~HasName(ForestAt(fv_self, chain).forest, sK)
                 THEN fv_result = InvalidAuthPath(sK)
            ELSE IF ~HasName(Named(ForestAt(fv_self, chain).forest, sK).values, name)
                 THEN fv_result = Err("MissingValue")
            ELSE LET d == Named(Named(ForestAt(fv_self, chain).forest, sK).values, name).data
                 IN  IF ext = ExtOf(d.type) THEN fv_result = Ok(d)
                     ELSE fv_result = Err("InvalidDataValueType")
    /\ (fv_result # None /\ fv_src = << Sep, "a", Sep, "b", Sep, "v", Dot, "boolean" >>) =>
        /\ fv_self = RootOnlyTree => fv_result = Ok(DBoolean(TRUE))
        /\ fv_self = InnerOnlyTree => fv_result = InvalidAuthPath("b")

\* C11 witness: "/a/b/x/c/v.boolean" went down through a and b, passed over
\* x, which is no Item, and returned v of the c inside a.b.
C11_Witness ==
    /\ fv_self = DeepTree
    /\ fv_src = << Sep, "a", Sep, "b", Sep, "x", Sep, "c", Sep, "v", Dot, "boolean" >>
    /\ fv_result = Ok(DBoolean(FALSE))

====
